---- MODULE Spec2Model ----
(***************************************************************************)
(* Model of src/app.py: the lexical sentiment classifier                   *)
(* (sentiment_comment), and the two /reviews request handlers (add_review, *)
(* get_reviews) working against the reviews table of SQL_INIT_DB through   *)
(* one SQLite connection per request (get_db / close_connection).          *)
(*                                                                         *)
(* A Python str is modelled as the sequence of its Unicode code points,    *)
(* so that lower(), strip(), split(), startswith() and slicing are         *)
(* computed on characters as Python computes them.                         *)
(***************************************************************************)
EXTENDS Integers, Sequences, FiniteSets, TLC

VARIABLES
    \* ---- sentiment_comment, one call unrolled (src/app.py:58-93)
    review,          \* the argument of the call
    words,           \* review.lower().split()
    idx,             \* number of words the for loop has processed
    positive_count,
    negative_count,
    result,          \* the returned label, NoValue until the return
    cpc,             \* position inside sentiment_comment
    \* ---- the database file reviews.db (src/app.py:11, 16-25)
    reviews,         \* the committed rows of table reviews
    sqlite_sequence, \* AUTOINCREMENT's high-water mark for table reviews
    \* ---- one request being served by each server thread
    pc,              \* the thread's position in its handler
    req,             \* the request the thread is serving
    conn,            \* whether g._database is set: get_db opened a connection
    review_dict,     \* add_review's review_dict
    pending,         \* the rows the thread's connection inserted and has not committed
    cursor,          \* get_reviews' cursor: the rows its SELECT produced, in order
    resp,            \* the response the handler returned
    writer,          \* the threads (none or one) whose connection holds the write lock
    now,             \* the server clock
    \* ---- history, for stating the claims
    commit_log,      \* the ids of the committed inserts, in commit order
    returned         \* the records successful POSTs have returned, with the text posted

clsVars == <<review, words, idx, positive_count, negative_count, result, cpc>>
dbVars == <<reviews, sqlite_sequence>>
reqVars == <<pc, req, conn, review_dict, pending, cursor, resp, writer, now>>
histVars == <<commit_log, returned>>
vars == <<clsVars, dbVars, reqVars, histVars>>

NoValue == "none"
\* A thread that serves no request, a handler that has not answered, a
\* review_dict not built yet, a request without the sentiment argument.
NoRequest == [method |-> "none"]
NoResponse == [status |-> 0, method |-> "none"]
NoDict == [unset |-> TRUE]
NoArg == [given |-> FALSE]

(***************************************************************************)
(* Python str operations, on sequences of code points.                     *)
(***************************************************************************)

\* str.isspace() for one character: what strip() and split() remove.
IsSpace(c) ==
    c \in ({9, 10, 11, 12, 13, 28, 29, 30, 31, 32, 133, 160, 5760}
           \cup (8192..8202) \cup {8232, 8233, 8239, 8287, 12288})

\* str.lower() for one character: Latin A-Z, Cyrillic U+0400-U+042F.
LowerChar(c) ==
    IF c \in 65..90 THEN c + 32
    ELSE IF c \in 1040..1071 THEN c + 32
    ELSE IF c \in 1024..1039 THEN c + 80
    ELSE c

lower(s) == [k \in 1..Len(s) |-> LowerChar(s[k])]

RECURSIVE lstrip(_)
lstrip(s) ==
    IF s # <<>> /\ IsSpace(Head(s)) THEN lstrip(Tail(s)) ELSE s

RECURSIVE rstrip(_)
rstrip(s) ==
    IF s # <<>> /\ IsSpace(s[Len(s)]) THEN rstrip(SubSeq(s, 1, Len(s) - 1)) ELSE s

\* str.strip() with no argument.
strip(s) == rstrip(lstrip(s))

\* str.split() with no argument: the maximal runs of non-whitespace characters.
\* acc is the list built so far, cur the word being read.
RECURSIVE SplitFrom(_, _, _)
SplitFrom(s, acc, cur) ==
    IF s = <<>>
    THEN IF cur = <<>> THEN acc ELSE Append(acc, cur)
    ELSE IF IsSpace(Head(s))
         THEN SplitFrom(Tail(s), IF cur = <<>> THEN acc ELSE Append(acc, cur), <<>>)
         ELSE SplitFrom(Tail(s), acc, Append(cur, Head(s)))

split(s) == SplitFrom(s, <<>>, <<>>)

\* str.startswith(prefix)
startswith(word, prefix) ==
    /\ Len(prefix) <= Len(word)
    /\ SubSeq(word, 1, Len(prefix)) = prefix

\* word[:n]
Slice(word, n) == SubSeq(word, 1, IF Len(word) < n THEN Len(word) ELSE n)

(***************************************************************************)
(* sentiment_comment (src/app.py:58-93)                                    *)
(***************************************************************************)

\* 'хорош', 'люблю', 'любим', 'отличн', 'обожа', 'прекрасн', 'замечательн',
\* 'классн', 'кайф', 'приятн'
positive_words ==
    { <<1093, 1086, 1088, 1086, 1096>>,
      <<1083, 1102, 1073, 1083, 1102>>,
      <<1083, 1102, 1073, 1080, 1084>>,
      <<1086, 1090, 1083, 1080, 1095, 1085>>,
      <<1086, 1073, 1086, 1078, 1072>>,
      <<1087, 1088, 1077, 1082, 1088, 1072, 1089, 1085>>,
      <<1079, 1072, 1084, 1077, 1095, 1072, 1090, 1077, 1083, 1100, 1085>>,
      <<1082, 1083, 1072, 1089, 1089, 1085>>,
      <<1082, 1072, 1081, 1092>>,
      <<1087, 1088, 1080, 1103, 1090, 1085>> }

\* 'плох', 'ужас', 'ненавиж', 'отвра', 'отстой'
negative_words ==
    { <<1087, 1083, 1086, 1093>>,
      <<1091, 1078, 1072, 1089>>,
      <<1085, 1077, 1085, 1072, 1074, 1080, 1078>>,
      <<1086, 1090, 1074, 1088, 1072>>,
      <<1086, 1090, 1089, 1090, 1086, 1081>> }

\* 'не'
NE == <<1085, 1077>>

\* the three labels: 'positive', 'negative', 'neutral'
POSITIVE == <<112, 111, 115, 105, 116, 105, 118, 101>>
NEGATIVE == <<110, 101, 103, 97, 116, 105, 118, 101>>
NEUTRAL == <<110, 101, 117, 116, 114, 97, 108>>

\* any(word.startswith(w) for w in stems)
AnyStartsWith(word, stems) == \E w \in stems : startswith(word, w)

\* The negation test of lines 76 and 82, for the word at Python index i - 1
\* (ws is 1-based here): word[:2] == 'не' or (i > 0 and words[i - 1] == 'не').
\* A version without the i > 0 guard, where Python's words[-1] is the last word.
NegatedNoGuard(ws, i) ==
    \/ Slice(ws[i], 2) = NE
    \/ ws[IF i > 1 THEN i - 1 ELSE Len(ws)] = NE

Negated(ws, i) ==
    \/ Slice(ws[i], 2) = NE
    \/ (i > 1 /\ ws[i - 1] = NE)

\* One pass of the for loop's body (lines 74-85) over the word at position i:
\* the counters after it, as <<positive_count, negative_count>>.
LoopBody(ws, i, p, n) ==
    IF AnyStartsWith(ws[i], positive_words)
    THEN IF Negated(ws, i) THEN <<p, n + 1>> ELSE <<p + 1, n>>
    ELSE IF AnyStartsWith(ws[i], negative_words)
         THEN IF Negated(ws, i) THEN <<p + 1, n>> ELSE <<p, n + 1>>
         ELSE <<p, n>>

\* Lines 88-93, with >= for > in the first comparison.
LabelTiePositive(p, n) ==
    IF p >= n THEN POSITIVE
    ELSE IF n > p THEN NEGATIVE
    ELSE NEUTRAL

\* Lines 88-93: the label from the two counters.
Label(p, n) ==
    IF p > n THEN POSITIVE
    ELSE IF n > p THEN NEGATIVE
    ELSE NEUTRAL

\* The for loop from position i on.
RECURSIVE Loop(_, _, _, _)
Loop(ws, i, p, n) ==
    IF i > Len(ws) THEN <<p, n>>
    ELSE LET c == LoopBody(ws, i, p, n) IN Loop(ws, i + 1, c[1], c[2])

\* The whole function, as add_review calls it.
sentiment_comment(text) ==
    LET c == Loop(split(lower(text)), 1, 0, 0) IN Label(c[1], c[2])


(***************************************************************************)
(* Bounds of the model.                                                    *)
(***************************************************************************)

\* A classified text is the concatenation of at most MaxPieces pieces.
MaxPieces == 3
\* Inserts (committed or in flight) the model follows.
MaxRows == 2
\* Ticks of the server clock the model follows.
MaxClock == 1

\* The server threads: two requests are served at the same time, which is
\* what every interleaving of one request's steps with another's needs.
Threads == {1, 2}

\* The pieces texts are made of: 'хорош', 'люблю', 'плох', 'ужас', 'ненавиж',
\* 'не', 'НЕ', 'ХОРОШ', 'о', ' ' and a tab.
Pieces ==
    { <<1093, 1086, 1088, 1086, 1096>>,
      <<1083, 1102, 1073, 1083, 1102>>,
      <<1087, 1083, 1086, 1093>>,
      <<1091, 1078, 1072, 1089>>,
      <<1085, 1077, 1085, 1072, 1074, 1080, 1078>>,
      NE,
      <<1053, 1045>>,
      <<1061, 1054, 1056, 1054, 1064>>,
      <<1086>>,
      <<32>>,
      <<9>> }

RECURSIVE TextsOf(_)
TextsOf(k) ==
    IF k = 0 THEN { <<>> }
    ELSE LET shorter == TextsOf(k - 1)
         IN  shorter \cup { t \o p : t \in shorter, p \in Pieces }

\* Every stem of the two lists: alone, with an ending, and after 'не '.
StemTexts ==
    UNION { { st, st \o <<1086>>, NE \o <<32>> \o st } :
            st \in positive_words \cup negative_words }

Texts == TextsOf(MaxPieces) \cup StemTexts

(***************************************************************************)
(* Initial state: the process after init_db (src/app.py:47-56, 147-149):  *)
(* an empty reviews table, every thread idle.                              *)
(***************************************************************************)

InitDb ==
    /\ reviews = {}
    /\ sqlite_sequence = 0

InitReq ==
    /\ pc = [t \in Threads |-> "idle"]
    /\ req = [t \in Threads |-> NoRequest]
    /\ conn = [t \in Threads |-> FALSE]
    /\ review_dict = [t \in Threads |-> NoDict]
    /\ pending = [t \in Threads |-> {}]
    /\ cursor = [t \in Threads |-> <<>>]
    /\ resp = [t \in Threads |-> NoResponse]
    /\ writer = {}
    /\ now = 0

InitHist ==
    /\ commit_log = <<>>
    /\ returned = {}

\* No call of sentiment_comment in progress.
InitClsIdle ==
    /\ review = <<>>
    /\ words = <<>>
    /\ idx = 0
    /\ positive_count = 0
    /\ negative_count = 0
    /\ result = NoValue
    /\ cpc = "idle"

(***************************************************************************)
(* sentiment_comment step by step, on every text of Texts.                 *)
(***************************************************************************)

InitClassify ==
    /\ review \in Texts
    /\ words = <<>>
    /\ idx = 0
    /\ positive_count = 0
    /\ negative_count = 0
    /\ result = NoValue
    /\ cpc = "start"
    /\ InitDb /\ InitReq /\ InitHist

\* Lines 67-70: the counters, and words = review.lower().split().
sc_split ==
    /\ cpc = "start"
    /\ words' = split(lower(review))
    /\ idx' = 0
    /\ positive_count' = 0
    /\ negative_count' = 0
    /\ cpc' = "loop"
    /\ UNCHANGED <<review, result, dbVars, reqVars, histVars>>

\* Lines 73-85: one iteration of the for loop.
sc_loop ==
    /\ cpc = "loop"
    /\ idx < Len(words)
    /\ LET c == LoopBody(words, idx + 1, positive_count, negative_count)
       IN  /\ positive_count' = c[1]
           /\ negative_count' = c[2]
    /\ idx' = idx + 1
    /\ UNCHANGED <<review, words, result, cpc, dbVars, reqVars, histVars>>

\* Lines 88-93: the loop is over, return the label.
sc_return ==
    /\ cpc = "loop"
    /\ idx = Len(words)
    /\ result' = Label(positive_count, negative_count)
    /\ cpc' = "done"
    /\ UNCHANGED <<review, words, idx, positive_count, negative_count,
                   dbVars, reqVars, histVars>>

NextClassify == sc_split \/ sc_loop \/ sc_return

SpecClassify == InitClassify /\ [][NextClassify]_vars


(***************************************************************************)
(* Claims about sentiment_comment, checked under SpecClassify.             *)
(***************************************************************************)

Sentiments == { POSITIVE, NEGATIVE, NEUTRAL }

IsPositiveStem(w) == \E st \in positive_words : startswith(w, st)
IsNegativeStem(w) == \E st \in negative_words : startswith(w, st)

\* C7: a text with a positive-stem token, no negative-stem token and no
\* standalone 'не' is labelled positive; a text with a negative-stem token, no
\* positive-stem token and no standalone 'не' is labelled negative.
C7_UnnegatedPolarity ==
    cpc = "done" =>
        /\ ( /\ \E j \in 1..Len(words) : IsPositiveStem(words[j])
             /\ \A j \in 1..Len(words) : ~IsNegativeStem(words[j])
             /\ \A j \in 1..Len(words) : words[j] # NE )
           => result = POSITIVE
        /\ ( /\ \E j \in 1..Len(words) : IsNegativeStem(words[j])
             /\ \A j \in 1..Len(words) : ~IsPositiveStem(words[j])
             /\ \A j \in 1..Len(words) : words[j] # NE )
           => result = NEGATIVE

\* The contribution the claim gives the j-th token: its raw polarity (positive
\* stems first), inverted when the token begins with 'не' or the token before
\* it is exactly 'не'.
ClaimedContribution(j) ==
    LET w == words[j]
        inverted == \/ (Len(w) >= 2 /\ w[1] = NE[1] /\ w[2] = NE[2])
                    \/ (j >= 2 /\ words[j - 1] = NE)
    IN  IF IsPositiveStem(w) THEN (IF inverted THEN "negative" ELSE "positive")
        ELSE IF IsNegativeStem(w) THEN (IF inverted THEN "positive" ELSE "negative")
        ELSE "nothing"

\* C8: after the loop has processed idx tokens, each of them has added one to
\* exactly the counter the claim names (inverted once when the token begins
\* with 'не' or follows a standalone 'не', never on the second ground for the
\* first token), and 'не' followed by one positive-stem token is negative.
C8_NegationInverts ==
    /\ cpc \in {"loop", "done"} =>
        /\ positive_count =
              Cardinality({ j \in 1..idx : ClaimedContribution(j) = "positive" })
        /\ negative_count =
              Cardinality({ j \in 1..idx : ClaimedContribution(j) = "negative" })
    /\ ( /\ cpc = "done"
         /\ Len(words) = 2
         /\ words[1] = NE
         /\ IsPositiveStem(words[2]) )
       => result = NEGATIVE

\* 'не ненавиж...': a negative-stem token on which both grounds hold has been
\* counted once, as positive.
C8_Witness ==
    /\ cpc = "done"
    /\ Len(words) = 2
    /\ words[1] = NE
    /\ Slice(words[2], 2) = NE
    /\ IsNegativeStem(words[2])
    /\ positive_count = 1
    /\ negative_count = 0

\* C9: every call runs to its return (no step fails, the loop index stays in
\* range), and the label returned is fixed by the counters: positive iff
\* positive_count > negative_count, negative iff negative_count >
\* positive_count, neutral otherwise; a text without tokens is neutral.
C9_LabelFromCounters ==
    /\ cpc # "done" => ENABLED NextClassify
    /\ cpc \in {"loop", "done"} => idx \in 0..Len(words)
    /\ cpc = "done" =>
        /\ idx = Len(words)
        /\ result \in Sentiments
        /\ result = POSITIVE <=> positive_count > negative_count
        /\ result = NEGATIVE <=> negative_count > positive_count
        /\ result = NEUTRAL <=> positive_count = negative_count
        /\ strip(review) = <<>> => result = NEUTRAL

\* A tie of one positive and one negative contribution, labelled neutral.
C9_Witness ==
    /\ cpc = "done"
    /\ positive_count = 1
    /\ negative_count = 1
    /\ result = NEUTRAL

\* The unrolled call and the function add_review calls agree.
SameAsFunction == cpc = "done" => result = sentiment_comment(review)


(***************************************************************************)
(* The reviews table and its statements (src/app.py:16-28, 113).           *)
(* SQLite is the environment: a connection's INSERT takes the database's   *)
(* write lock and stays private to that connection until it commits; a     *)
(* statement that meets another connection's lock fails with "database is  *)
(* locked" once the busy timeout is over; closing a connection rolls its   *)
(* open transaction back.                                                  *)
(***************************************************************************)

\* The CHECK constraint of the table, accepting every value.
CheckAcceptsAll(row) == TRUE

\* CHECK (sentiment in ('positive', 'negative', 'neutral')), line 22.
SQL_INIT_DB_Check(row) == row.sentiment \in { POSITIVE, NEGATIVE, NEUTRAL }

\* The rowid without the + 1: the largest id in use is handed out again.
LastRowidReused == sqlite_sequence

\* id INTEGER PRIMARY KEY AUTOINCREMENT, line 18: the id the next INSERT gets,
\* one more than the largest id the table ever held.
LastRowid == sqlite_sequence + 1

\* ORDER BY id: the rows of a set, smallest id first.
RECURSIVE OrderById(_)
OrderById(rows) ==
    IF rows = {} THEN <<>>
    ELSE LET first == CHOOSE r \in rows : \A q \in rows : r.id <= q.id
         IN  <<first>> \o OrderById(rows \ {first})

\* The SELECT without its WHERE clause.
SelectAll(table, sentiment) == OrderById(table)

\* SQL_GET_REVIEWS with SQL_GET_REVIEWS_WHERE when sentiment is not '', lines
\* 27-28 and 133-136: the rows the SELECT yields, in the order it yields them.
SQL_GET_REVIEWS(table, sentiment) ==
    IF sentiment # <<>>
    THEN OrderById({ r \in table : r.sentiment = sentiment })
    ELSE OrderById(table)

\* What a SELECT on thread t's connection reads, were uncommitted rows of
\* other connections visible to it.
VisibleDirty(t) == reviews \cup UNION { pending[u] : u \in Threads }

\* What a SELECT on thread t's connection reads: the committed rows (the
\* connection of get_db belongs to this request alone, lines 35-38, and a
\* request that reads has inserted nothing).
Visible(t) == reviews

(***************************************************************************)
(* The requests the model sends.                                           *)
(***************************************************************************)

\* JSON bodies of POST /reviews: no 'text' key, a 'text' that is not a
\* string, and the texts ' хорошо ', 'Ужас', two blanks.
PostTexts ==
    { <<32, 1093, 1086, 1088, 1086, 1096, 1086, 32>>,
      <<1059, 1078, 1072, 1089>>,
      <<32, 32>> }

PostBodies ==
    { [kind |-> "no_text"], [kind |-> "text_not_str"] }
    \cup { [kind |-> "text", text |-> s] : s \in PostTexts }

\* The sentiment argument of GET /reviews: omitted, '', the three labels,
\* ' Positive ' and 'bad'.
GetArgs ==
    { NoArg }
    \cup { [given |-> TRUE, value |-> v] :
            v \in { <<>>, POSITIVE, NEGATIVE, NEUTRAL,
                    <<32, 80, 111, 115, 105, 116, 105, 118, 101, 32>>,
                    <<98, 97, 100>> } }

Error(method, message) == [status |-> 400, method |-> method, error |-> message]

(***************************************************************************)
(* add_review (src/app.py:95-119)                                          *)
(***************************************************************************)

\* INSERTs on their way: requests between building review_dict and the
\* answer of db.commit().
InFlight == Cardinality({ t \in Threads : pc[t] \in {"insert", "commit"} })

\* Lines 100-109: read the body, strip the text, classify it, take the time.
\* A body without 'text' raises at line 103, a 'text' that is no str at 105.
add_review_begin(t, body) ==
    /\ pc[t] = "idle"
    /\ body.kind = "text" => sqlite_sequence + InFlight < MaxRows
    /\ req' = [req EXCEPT ![t] = [method |-> "POST", body |-> body]]
    /\ IF body.kind = "no_text"
       THEN /\ resp' = [resp EXCEPT ![t] = Error("POST", "no text")]
            /\ pc' = [pc EXCEPT ![t] = "teardown"]
            /\ UNCHANGED review_dict
       ELSE IF body.kind = "text_not_str"
       THEN /\ resp' = [resp EXCEPT ![t] = Error("POST", "no strip")]
            /\ pc' = [pc EXCEPT ![t] = "teardown"]
            /\ UNCHANGED review_dict
       ELSE /\ review_dict' = [review_dict EXCEPT ![t] =
                   [text |-> strip(body.text),
                    sentiment |-> sentiment_comment(strip(body.text)),
                    created_at |-> now]]
            /\ pc' = [pc EXCEPT ![t] = "insert"]
            /\ UNCHANGED resp
    /\ UNCHANGED <<conn, pending, cursor, writer, now, clsVars, dbVars, histVars>>

\* Lines 111-114: get_db opens the request's connection and the INSERT runs.
\* It fails when another connection holds the write lock or the CHECK
\* constraint rejects the row; otherwise the row, with its new id, is part
\* of this connection's open transaction.
add_review_insert(t) ==
    /\ pc[t] = "insert"
    /\ conn' = [conn EXCEPT ![t] = TRUE]
    /\ IF writer \notin { {}, {t} }
       THEN /\ resp' = [resp EXCEPT ![t] = Error("POST", "database is locked")]
            /\ pc' = [pc EXCEPT ![t] = "teardown"]
            /\ UNCHANGED <<pending, writer>>
       ELSE IF ~SQL_INIT_DB_Check(review_dict[t])
       THEN /\ resp' = [resp EXCEPT ![t] = Error("POST", "CHECK constraint failed")]
            /\ pc' = [pc EXCEPT ![t] = "teardown"]
            /\ UNCHANGED <<pending, writer>>
       ELSE /\ pending' = [pending EXCEPT ![t] =
                   { [id |-> LastRowid,
                      text |-> review_dict[t].text,
                      sentiment |-> review_dict[t].sentiment,
                      created_at |-> review_dict[t].created_at] }]
            /\ writer' = {t}
            /\ pc' = [pc EXCEPT ![t] = "commit"]
            /\ UNCHANGED resp
    /\ UNCHANGED <<req, review_dict, cursor, now, clsVars, dbVars, histVars>>

\* Lines 115-116 without the db.commit(): the 200 answer goes out while the
\* row is still in the connection's open transaction.
add_review_commit_forgotten(t) ==
    /\ pc[t] = "commit"
    /\ LET row == CHOOSE r \in pending[t] : TRUE
       IN  /\ resp' = [resp EXCEPT ![t] =
                  [status |-> 200, method |-> "POST", body |-> row]]
           /\ returned' = returned \cup
                  { [record |-> row, posted |-> req[t].body.text] }
    /\ pc' = [pc EXCEPT ![t] = "teardown"]
    /\ UNCHANGED <<req, conn, review_dict, pending, writer, cursor, now,
                   commit_log, clsVars, dbVars>>

\* Lines 115-116: db.commit() and the 200 answer. The commit fails while
\* another connection is reading (it cannot get the exclusive lock); the
\* transaction then stays open until close_connection.
add_review_commit(t) ==
    /\ pc[t] = "commit"
    /\ IF \E u \in Threads \ {t} : pc[u] = "fetch"
       THEN /\ resp' = [resp EXCEPT ![t] = Error("POST", "database is locked")]
            /\ UNCHANGED <<pending, writer, dbVars, histVars>>
       ELSE LET row == CHOOSE r \in pending[t] : TRUE
            IN  /\ reviews' = reviews \cup pending[t]
                /\ sqlite_sequence' = row.id
                /\ pending' = [pending EXCEPT ![t] = {}]
                /\ writer' = {}
                /\ resp' = [resp EXCEPT ![t] =
                       [status |-> 200, method |-> "POST", body |-> row]]
                /\ commit_log' = Append(commit_log, row.id)
                /\ returned' = returned \cup
                       { [record |-> row, posted |-> req[t].body.text] }
    /\ pc' = [pc EXCEPT ![t] = "teardown"]
    /\ UNCHANGED <<req, conn, review_dict, cursor, now, clsVars>>

(***************************************************************************)
(* get_reviews (src/app.py:122-145)                                        *)
(***************************************************************************)

\* The check of line 129 made on the argument as sent, without strip/lower.
NormalizeNothing(arg) == IF arg.given THEN arg.value ELSE <<>>

\* Line 128: request.args.get('sentiment', '').strip().lower()
Normalize(arg) == IF arg.given THEN lower(strip(arg.value)) ELSE <<>>

\* Lines 127-136 with the SELECT run before the argument is validated.
get_reviews_query_first(t, arg) ==
    /\ pc[t] = "idle"
    /\ req' = [req EXCEPT ![t] = [method |-> "GET", arg |-> arg]]
    /\ conn' = [conn EXCEPT ![t] = TRUE]
    /\ cursor' = [cursor EXCEPT ![t] = SQL_GET_REVIEWS(Visible(t), Normalize(arg))]
    /\ IF Normalize(arg) \notin { POSITIVE, NEGATIVE, NEUTRAL, <<>> }
       THEN /\ resp' = [resp EXCEPT ![t] = Error("GET", "bad sentiment")]
            /\ pc' = [pc EXCEPT ![t] = "teardown"]
       ELSE /\ pc' = [pc EXCEPT ![t] = "fetch"]
            /\ UNCHANGED resp
    /\ UNCHANGED <<review_dict, pending, writer, now, clsVars, dbVars, histVars>>

\* Lines 127-136: validate the argument (line 130 raises before get_db is
\* reached), else open the connection and execute the SELECT.
get_reviews_execute(t, arg) ==
    /\ pc[t] = "idle"
    /\ req' = [req EXCEPT ![t] = [method |-> "GET", arg |-> arg]]
    /\ IF Normalize(arg) \notin { POSITIVE, NEGATIVE, NEUTRAL, <<>> }
       THEN /\ resp' = [resp EXCEPT ![t] = Error("GET", "bad sentiment")]
            /\ pc' = [pc EXCEPT ![t] = "teardown"]
            /\ UNCHANGED <<conn, cursor>>
       ELSE /\ conn' = [conn EXCEPT ![t] = TRUE]
            /\ cursor' = [cursor EXCEPT ![t] =
                   SQL_GET_REVIEWS(Visible(t), Normalize(arg))]
            /\ pc' = [pc EXCEPT ![t] = "fetch"]
            /\ UNCHANGED resp
    /\ UNCHANGED <<review_dict, pending, writer, now, clsVars, dbVars, histVars>>

\* Lines 138-142: read the cursor to its end and return the list.
get_reviews_fetch(t) ==
    /\ pc[t] = "fetch"
    /\ resp' = [resp EXCEPT ![t] =
           [status |-> 200, method |-> "GET", body |-> cursor[t]]]
    /\ cursor' = [cursor EXCEPT ![t] = <<>>]
    /\ pc' = [pc EXCEPT ![t] = "teardown"]
    /\ UNCHANGED <<req, conn, review_dict, pending, writer, now,
                   clsVars, dbVars, histVars>>

(***************************************************************************)
(* close_connection (src/app.py:40-45)                                     *)
(***************************************************************************)

\* A teardown that commits what the connection still holds before closing.
close_connection_commits(t) ==
    /\ pc[t] = "teardown"
    /\ reviews' = reviews \cup pending[t]
    /\ sqlite_sequence' = sqlite_sequence + Cardinality(pending[t])
    /\ writer' = writer \ {t}
    /\ pending' = [pending EXCEPT ![t] = {}]
    /\ conn' = [conn EXCEPT ![t] = FALSE]
    /\ pc' = [pc EXCEPT ![t] = "idle"]
    /\ req' = [req EXCEPT ![t] = NoRequest]
    /\ review_dict' = [review_dict EXCEPT ![t] = NoDict]
    /\ resp' = [resp EXCEPT ![t] = NoResponse]
    /\ UNCHANGED <<cursor, now, clsVars, histVars>>

\* The request is over: the answer has gone out, the connection (if one was
\* opened) is closed, which rolls back a transaction left open and frees
\* its lock; the thread is ready for the next request.
close_connection(t) ==
    /\ pc[t] = "teardown"
    /\ writer' = IF conn[t] THEN writer \ {t} ELSE writer
    /\ pending' = [pending EXCEPT ![t] = {}]
    /\ conn' = [conn EXCEPT ![t] = FALSE]
    /\ pc' = [pc EXCEPT ![t] = "idle"]
    /\ req' = [req EXCEPT ![t] = NoRequest]
    /\ review_dict' = [review_dict EXCEPT ![t] = NoDict]
    /\ resp' = [resp EXCEPT ![t] = NoResponse]
    /\ UNCHANGED <<cursor, now, clsVars, dbVars, histVars>>

\* The server clock advances (datetime.now(UTC), line 108, reads it).
Tick ==
    /\ now < MaxClock
    /\ now' = now + 1
    /\ UNCHANGED <<pc, req, conn, review_dict, pending, cursor, resp, writer,
                   clsVars, dbVars, histVars>>

Init == InitClsIdle /\ InitDb /\ InitReq /\ InitHist

Next ==
    \/ \E t \in Threads, body \in PostBodies : add_review_begin(t, body)
    \/ \E t \in Threads : add_review_insert(t)
    \/ \E t \in Threads : add_review_commit(t)
    \/ \E t \in Threads, arg \in GetArgs : get_reviews_execute(t, arg)
    \/ \E t \in Threads : get_reviews_fetch(t)
    \/ \E t \in Threads : close_connection(t)
    \/ Tick

Spec == Init /\ [][Next]_vars


(***************************************************************************)
(* The INSERT of line 113 reached with any sentiment value: the requests   *)
(* of Spec, and a review_dict whose sentiment is none of the three labels  *)
(* (which sentiment_comment never returns). The CHECK constraint of the     *)
(* table is what answers it.                                               *)
(***************************************************************************)

\* Values outside the three labels: 'mixed' and 'Positive'.
OtherSentiments ==
    { <<109, 105, 120, 101, 100>>, <<80, 111, 115, 105, 116, 105, 118, 101>> }

insert_any_sentiment(t, body, s) ==
    /\ pc[t] = "idle"
    /\ body.kind = "text"
    /\ sqlite_sequence + InFlight < MaxRows
    /\ req' = [req EXCEPT ![t] = [method |-> "POST", body |-> body]]
    /\ review_dict' = [review_dict EXCEPT ![t] =
           [text |-> strip(body.text), sentiment |-> s, created_at |-> now]]
    /\ pc' = [pc EXCEPT ![t] = "insert"]
    /\ UNCHANGED <<conn, pending, cursor, resp, writer, now,
                   clsVars, dbVars, histVars>>

NextStore ==
    \/ Next
    \/ \E t \in Threads, body \in PostBodies, s \in OtherSentiments :
           insert_any_sentiment(t, body, s)

SpecStore == Init /\ [][NextStore]_vars

(***************************************************************************)
(* Claims about the requests and the table.                                *)
(***************************************************************************)

IsPost(r) == r.method = "POST"
IsGet(r) == r.method = "GET"
Rows(list) == { list[k] : k \in 1..Len(list) }
Uncommitted == UNION { pending[t] : t \in Threads }

\* C1: every row of the table, committed or part of an open transaction, has
\* one of the three sentiments; an INSERT of any other value is answered with
\* an error and leaves no row.
C1_SentimentDomain ==
    /\ \A r \in reviews \cup Uncommitted : r.sentiment \in Sentiments
    /\ \A t \in Threads :
          ( /\ review_dict[t] # NoDict
            /\ review_dict[t].sentiment \notin Sentiments
            /\ pc[t] \notin {"idle", "insert"} )
          => /\ pc[t] = "teardown"
             /\ resp[t].status = 400
             /\ pending[t] = {}

\* An INSERT with a sentiment outside the three was rejected, next to a
\* stored row.
C1_Witness ==
    /\ reviews # {}
    /\ \E t \in Threads :
          /\ pc[t] = "teardown"
          /\ review_dict[t] # NoDict
          /\ review_dict[t].sentiment \notin Sentiments
          /\ resp[t] = Error("POST", "CHECK constraint failed")

\* The raw argument values the claim calls valid, and the filter each means.
IsValidFilter(arg) ==
    ~arg.given \/ arg.value \in { POSITIVE, NEGATIVE, NEUTRAL, <<>> }
FilterOf(arg) == IF arg.given THEN arg.value ELSE <<>>

\* list holds exactly the rows of table whose sentiment is f (all rows when
\* f is empty), each once, in strictly ascending id order.
IsListing(list, table, f) ==
    /\ \A k \in 1..(Len(list) - 1) : list[k].id < list[k + 1].id
    /\ Rows(list) = { r \in table : f = <<>> \/ r.sentiment = f }

\* C2: the SELECT of a GET with a valid filter yields exactly the persisted
\* rows with that sentiment (all of them without a filter), each once, by
\* strictly ascending id, and that list is what the GET answers with 200.
C2_ListExactlyMatching ==
    [][ \A t \in Threads :
          /\ ( pc[t] = "idle" /\ pc'[t] = "fetch" /\ IsValidFilter(req'[t].arg) )
             => IsListing(cursor'[t], reviews', FilterOf(req'[t].arg))
          /\ ( pc[t] = "fetch" /\ pc'[t] = "teardown" )
             => /\ resp'[t].status = 200
                /\ IsGet(resp'[t])
                /\ resp'[t].body = cursor[t]
      ]_vars

\* A filtered GET answered with a non-empty list while the table also holds
\* a row of another sentiment.
C2_Witness ==
    \E t \in Threads :
        /\ IsGet(resp[t])
        /\ resp[t].status = 200
        /\ req[t].arg.given
        /\ req[t].arg.value \in Sentiments
        /\ resp[t].body # <<>>
        /\ \E r \in reviews : r.sentiment # req[t].arg.value

StrictlyIncreasing(seq) == \A k \in 1..(Len(seq) - 1) : seq[k] < seq[k + 1]

\* C3: the ids of the committed inserts are strictly increasing in commit
\* order, every id a successful POST returns is one of them, and no id belongs
\* to two rows or to two returned records.
C3_IdsIncrease ==
    /\ StrictlyIncreasing(commit_log)
    /\ Len(commit_log) = Cardinality(reviews)
    /\ { r.id : r \in reviews } = { commit_log[k] : k \in 1..Len(commit_log) }
    /\ \A r, q \in reviews : r.id = q.id => r = q
    /\ \A a, b \in returned : a.record.id = b.record.id => a = b
    /\ \A t \in Threads :
          ( IsPost(resp[t]) /\ resp[t].status = 200 )
          => \E k \in 1..Len(commit_log) : commit_log[k] = resp[t].body.id

\* Two inserts have committed and a POST has just failed on the lock.
C3_Witness ==
    /\ Len(commit_log) = 2
    /\ \E t \in Threads : resp[t] = Error("POST", "database is locked")

\* C4: a record a successful POST returned has the trimmed text posted, the
\* label sentiment_comment gives that text and a row of the table equal to
\* it; rows are never changed or removed; and every later unfiltered GET
\* lists the record.
C4_CreatedStays ==
    [][ /\ \A r \in reviews : r \in reviews'
        /\ \A x \in returned' : x.record \in reviews'
        /\ \A x \in returned' \ returned :
              /\ x.record.text = strip(x.posted)
              /\ x.record.sentiment = sentiment_comment(strip(x.posted))
        /\ \A t \in Threads :
              ( pc[t] = "idle" /\ pc'[t] = "fetch" /\ Normalize(req'[t].arg) = <<>> )
              => \A x \in returned : x.record \in Rows(cursor'[t])
        /\ \A t \in Threads :
              ( pc[t] = "fetch" /\ pc'[t] = "teardown" )
              => resp'[t].body = cursor[t]
      ]_vars

\* An unfiltered GET has answered with two rows, one of them a record an
\* earlier POST returned for a text that had to be trimmed.
C4_Witness ==
    \E t \in Threads :
        /\ IsGet(resp[t])
        /\ resp[t].status = 200
        /\ Normalize(req[t].arg) = <<>>
        /\ Len(resp[t].body) = 2
        /\ \E x \in returned :
              /\ x.record \in Rows(resp[t].body)
              /\ x.record.text # x.posted

\* C5 as claimed: a GET whose sentiment value, as sent, is none of the three
\* labels and not empty is answered 400 without a query.
C5_AsClaimed ==
    \A t \in Threads :
        ( /\ pc[t] \in {"fetch", "teardown"}
          /\ IsGet(req[t])
          /\ req[t].arg.given
          /\ req[t].arg.value \notin { POSITIVE, NEGATIVE, NEUTRAL, <<>> } )
        => /\ pc[t] = "teardown"
           /\ resp[t].status = 400
           /\ ~conn[t]

\* C5, amended: a GET whose sentiment value, once stripped of surrounding
\* whitespace and lower-cased, is none of the three labels and not empty is
\* answered 400 with an error body, and no connection was opened for it: no
\* query ran.
C5_InvalidFilterRejected ==
    \A t \in Threads :
        ( /\ pc[t] \in {"fetch", "teardown"}
          /\ IsGet(req[t])
          /\ req[t].arg.given
          /\ lower(strip(req[t].arg.value)) \notin { POSITIVE, NEGATIVE, NEUTRAL, <<>> } )
        => /\ pc[t] = "teardown"
           /\ resp[t] = Error("GET", "bad sentiment")
           /\ ~conn[t]
           /\ cursor[t] = <<>>

\* A GET with sentiment=bad has been answered 400 over a non-empty table.
C5_Witness ==
    /\ reviews # {}
    /\ \E t \in Threads :
          /\ IsGet(req[t])
          /\ req[t].arg = [given |-> TRUE, value |-> <<98, 97, 100>>]
          /\ resp[t].status = 400

\* C6: the table changes only in the step that answers a POST with 200, by
\* exactly the row returned; a 200 answer's row is committed; a step that
\* answers with an error, and the teardown of any request, leave the table
\* as it was; and no SELECT or GET answer holds a row that is not committed.
C6_AllOrNothing ==
    [][ /\ reviews' # reviews =>
              \E t \in Threads :
                  /\ resp[t] = NoResponse
                  /\ IsPost(resp'[t])
                  /\ resp'[t].status = 200
                  /\ resp'[t].body \notin reviews
                  /\ reviews' = reviews \cup { resp'[t].body }
        /\ \A t \in Threads :
              /\ ( IsPost(resp'[t]) /\ resp'[t].status = 200 )
                 => resp'[t].body \in reviews'
              /\ ( resp'[t] # resp[t] /\ resp'[t].status = 400 )
                 => reviews' = reviews
              /\ pc'[t] = "fetch" => Rows(cursor'[t]) \subseteq reviews'
              /\ ( IsGet(resp'[t]) /\ resp'[t].status = 200 )
                 => Rows(resp'[t].body) \subseteq reviews'
      ]_vars

\* A POST whose INSERT ran has been answered with an error: its row is still
\* in the open transaction, which the teardown will roll back, while another
\* request is reading the table.
C6_Witness ==
    \E t, u \in Threads :
        /\ resp[t] = Error("POST", "database is locked")
        /\ pending[t] # {}
        /\ pc[u] = "fetch"
        /\ reviews # {}

\* C10: every persisted row has a non-empty text without leading or trailing
\* whitespace.
C10_TextNonEmptyTrimmed ==
    \A r \in reviews :
        /\ r.text # <<>>
        /\ ~IsSpace(r.text[1])
        /\ ~IsSpace(r.text[Len(r.text)])

====
